---- MODULE Spec2Model ----
(***************************************************************************)
(* Model of mcut's geometry kernel header, include/mcut/internal/geom.h:   *)
(* the axis-aligned bounding box accumulator bounding_box_t<vector_type>,  *)
(* intersect_bounding_boxes, make_bbox and the segment/plane classifier    *)
(* compute_segment_plane_intersection.                                     *)
(*                                                                         *)
(* Coordinates.  The box code only compares coordinates (<=, >=, min,      *)
(* max), so a double is modelled by an integer and any strictly monotone   *)
(* embedding of the doubles preserves the behaviour.  Sample coordinates   *)
(* are the even integers of Coord; std::numeric_limits<double>::min(), the *)
(* smallest POSITIVE normal double, is the odd integer DBL_MIN = 1, which  *)
(* lies strictly between the sample 0 and the first positive sample; and   *)
(* std::numeric_limits<double>::max() is DBL_MAX, above every sample.      *)
(*                                                                         *)
(* Vectors are functions from an axis set (1..2 for math::vec2, 1..3 for   *)
(* math::vec3) to coordinates; x(), y(), z() are components 1, 2, 3.       *)
(*                                                                         *)
(* Specifications: SpecBox (constructors and expand on a vec2 box),        *)
(* SpecOrder (the same expand calls made in every order), SpecMake         *)
(* (make_bbox), SpecIntersect (intersect_bounding_boxes on vec3 boxes) and *)
(* SpecSeg (compute_segment_plane_intersection).                           *)
(***************************************************************************)
EXTENDS Integers, Sequences, FiniteSets, Bags, TLC

VARIABLES
    bbox,      \* the bounding_box_t object operated on (argument a of the overlap test)
    prev,      \* the value of bbox before the last call on it
    op,        \* the last call: [kind, point, bbox]
    origin,    \* which constructor made bbox: "default" or "explicit"
    trail,     \* expand calls since construction: "none", "valid" (points and valid boxes only), "sentinel"
    applied,   \* the bag of expand calls made since construction (order specification)
    vertices,  \* the vertex array handed to make_bbox
    other,     \* argument b of intersect_bounding_boxes
    hit,       \* the value intersect_bounding_boxes returned
    seg,       \* the arguments of compute_segment_plane_intersection: [normal, d_coeff, q, r]
    ret        \* what compute_segment_plane_intersection returned: [code, p]

vars == <<bbox, prev, op, origin, trail, applied, vertices, other, hit, seg, ret>>

----------------------------------------------------------------------------
(* Bounds and sample sets *)

MaxCoord == 1

Coord == {2 * c : c \in -1..MaxCoord}

DBL_MIN == 1

DBL_MAX == 2 * MaxCoord + 1

Axes2 == 1..2

Axes3 == 1..3

Points2 == [Axes2 -> Coord]

Points3 == [Axes3 -> Coord]

----------------------------------------------------------------------------
(* math.h: component-wise minimum and maximum of two vectors *)

compwise_min(a, b) == [i \in DOMAIN a |-> IF a[i] < b[i] THEN a[i] ELSE b[i]]

compwise_max(a, b) == [i \in DOMAIN a |-> IF a[i] > b[i] THEN a[i] ELSE b[i]]

----------------------------------------------------------------------------
(* struct bounding_box_t *)

bounding_box_t(minimum, maximum) == [m_minimum |-> minimum, m_maximum |-> maximum]

\* a default constructor whose sentinels are exchanged
bounding_box_t0_swapped(axes) ==
    [m_minimum |-> [i \in axes |-> DBL_MIN], m_maximum |-> [i \in axes |-> DBL_MAX]]

\* bounding_box_t(): vector_type(v) sets every component to v
bounding_box_t0(axes) ==
    [m_minimum |-> [i \in axes |-> DBL_MAX], m_maximum |-> [i \in axes |-> DBL_MIN]]

minimum(b) == b.m_minimum

maximum(b) == b.m_maximum

\* expand(point) that grows only the maximum side
expand_point_max_only(b, point) ==
    [m_minimum |-> b.m_minimum, m_maximum |-> compwise_max(b.m_maximum, point)]

\* expand(point) that overwrites the maximum with the point
expand_point_overwrite(b, point) ==
    [m_minimum |-> compwise_min(b.m_minimum, point), m_maximum |-> point]

\* void expand(const vector_type& point)
expand_point(b, point) ==
    LET m_maximum == compwise_max(b.m_maximum, point)
        m_minimum == compwise_min(b.m_minimum, point)
    IN  [m_minimum |-> m_minimum, m_maximum |-> m_maximum]

\* expand(bbox) that takes over the extent of its argument
expand_bbox_assign(b, arg) ==
    [m_minimum |-> compwise_min(b.m_minimum, minimum(arg)), m_maximum |-> maximum(arg)]

\* void expand(const bounding_box_t<vector_type>& bbox)
expand_bbox(b, arg) ==
    LET m_maximum == compwise_max(b.m_maximum, maximum(arg))
        m_minimum == compwise_min(b.m_minimum, minimum(arg))
    IN  [m_minimum |-> m_minimum, m_maximum |-> m_maximum]

\* an overlap test with strict comparisons: boxes that only touch are missed
intersect_bounding_boxes_strict(a, b) ==
    /\ (minimum(a)[1] < maximum(b)[1] /\ maximum(a)[1] > minimum(b)[1])
    /\ (minimum(a)[2] < maximum(b)[2] /\ maximum(a)[2] > minimum(b)[2])
    /\ (minimum(a)[3] < maximum(b)[3] /\ maximum(a)[3] > minimum(b)[3])

\* bool intersect_bounding_boxes(a, b), on bounding_box_t<math::vec3_<T>>
intersect_bounding_boxes(a, b) ==
    /\ (minimum(a)[1] <= maximum(b)[1] /\ maximum(a)[1] >= minimum(b)[1])
    /\ (minimum(a)[2] <= maximum(b)[2] /\ maximum(a)[2] >= minimum(b)[2])
    /\ (minimum(a)[3] <= maximum(b)[3] /\ maximum(a)[3] >= minimum(b)[3])

\* the loop of make_bbox from index i on (the array is 1-based here)
RECURSIVE make_bbox_from(_, _, _, _)
make_bbox_from(b, verts, num_vertices, i) ==
    IF i <= num_vertices
    THEN LET vertex == verts[i]
         IN  make_bbox_from(expand_point(b, vertex), verts, num_vertices, i + 1)
    ELSE b

\* void make_bbox(bbox, vertices, num_vertices), past its assertions
make_bbox(b, verts, num_vertices) == make_bbox_from(b, verts, num_vertices, 1)

----------------------------------------------------------------------------
(* Predicates and sample sets the properties are stated with *)

IsValid(b) == \A i \in DOMAIN b.m_minimum : b.m_minimum[i] <= b.m_maximum[i]

Inside(point, b) ==
    \A i \in DOMAIN point : b.m_minimum[i] <= point[i] /\ point[i] <= b.m_maximum[i]

ValidBoxes2 == {b \in [m_minimum : Points2, m_maximum : Points2] : IsValid(b)}

ValidBoxes3 == {b \in [m_minimum : Points3, m_maximum : Points3] : IsValid(b)}

NoPoint == <<>>

NoBox == [m_minimum |-> <<>>, m_maximum |-> <<>>]

NoSeg == [normal |-> <<>>, d_coeff |-> 0, q |-> <<>>, r |-> <<>>]

NoRet == [code |-> "none", p |-> <<>>]

----------------------------------------------------------------------------
(* The accumulator: a bounding_box_t<math::vec2> under its constructors and expand *)

restBox == <<applied, vertices, other, hit, seg, ret>>

InitBox ==
    /\ bbox = bounding_box_t0(Axes2)
    /\ prev = bounding_box_t0(Axes2)
    /\ op = [kind |-> "default", point |-> NoPoint, bbox |-> NoBox]
    /\ origin = "default"
    /\ trail = "none"
    /\ applied = EmptyBag
    /\ vertices = <<>>
    /\ other = NoBox
    /\ hit = FALSE
    /\ seg = NoSeg
    /\ ret = NoRet

DefaultConstruct ==
    /\ bbox' = bounding_box_t0(Axes2)
    /\ prev' = bounding_box_t0(Axes2)
    /\ op' = [kind |-> "default", point |-> NoPoint, bbox |-> NoBox]
    /\ origin' = "default"
    /\ trail' = "none"
    /\ UNCHANGED restBox

\* callers hand the two-argument constructor the corners of a valid box
Construct(b) ==
    /\ bbox' = bounding_box_t(b.m_minimum, b.m_maximum)
    /\ prev' = bbox'
    /\ op' = [kind |-> "construct", point |-> NoPoint, bbox |-> NoBox]
    /\ origin' = "explicit"
    /\ trail' = "none"
    /\ UNCHANGED restBox

ExpandPoint(point) ==
    /\ prev' = bbox
    /\ bbox' = expand_point(bbox, point)
    /\ op' = [kind |-> "expand_point", point |-> point, bbox |-> NoBox]
    /\ trail' = IF trail = "sentinel" THEN "sentinel" ELSE "valid"
    /\ UNCHANGED <<origin, restBox>>

ExpandBox(arg) ==
    /\ prev' = bbox
    /\ bbox' = expand_bbox(bbox, arg)
    /\ op' = [kind |-> "expand_bbox", point |-> NoPoint, bbox |-> arg]
    /\ trail' = IF trail = "sentinel" \/ ~IsValid(arg) THEN "sentinel" ELSE "valid"
    /\ UNCHANGED <<origin, restBox>>

NextBox ==
    \/ DefaultConstruct
    \/ \E b \in ValidBoxes2 : Construct(b)
    \/ \E point \in Points2 : ExpandPoint(point)
    \/ \E arg \in ValidBoxes2 \cup {bounding_box_t0(Axes2)} : ExpandBox(arg)

SpecBox == InitBox /\ [][NextBox]_vars

----------------------------------------------------------------------------
(* Properties of the accumulator, under SpecBox *)

IsExpand == op.kind \in {"expand_point", "expand_bbox"}

\* C1: the first expand(point) on a default-constructed box makes minimum()
\* and maximum() both equal to the point, on every axis, whatever its signs.
C1_FirstExpandEstablishes ==
    (op.kind = "expand_point" /\ origin = "default" /\ prev = bounding_box_t0(Axes2))
        => (minimum(bbox) = op.point /\ maximum(bbox) = op.point)

\* C4: after a non-empty sequence of expand(point) and expand(validBox) calls
\* on a default-constructed box, minimum <= maximum on every axis; a box of
\* that lineage with minimum > maximum on some axis is the untouched default.
C4_ValidOnceExpanded ==
    origin = "default" =>
        /\ trail = "valid" => IsValid(bbox)
        /\ (trail # "sentinel" /\ ~IsValid(bbox)) =>
               (trail = "none" /\ bbox = bounding_box_t0(Axes2))

C4_Witness ==
    /\ origin = "default"
    /\ trail = "valid"
    /\ op.kind = "expand_bbox"
    /\ prev # bounding_box_t0(Axes2)
    /\ bbox # prev
    /\ IsValid(bbox)

\* C5: no expand call shrinks the box: on every axis the minimum does not
\* rise and the maximum does not fall, so every point inside the box before
\* the call is inside it after the call.
C5_NeverShrinks ==
    IsExpand =>
        /\ \A i \in Axes2 : /\ minimum(bbox)[i] <= minimum(prev)[i]
                            /\ maximum(bbox)[i] >= maximum(prev)[i]
        /\ \A point \in Points2 : Inside(point, prev) => Inside(point, bbox)

C5_Witness ==
    /\ op.kind = "expand_bbox"
    /\ IsValid(prev)
    /\ minimum(bbox) # minimum(prev)
    /\ maximum(bbox) # maximum(prev)
    /\ \E point \in Points2 : Inside(point, prev) /\ ~Inside(point, op.bbox)

\* C6: the default-constructed box is an identity for expand(otherBox):
\* default.expand(B) is exactly B, and B.expand(default) leaves B unchanged,
\* for every valid box B.
C6_SentinelIsIdentity ==
    op.kind = "expand_bbox" =>
        /\ (prev = bounding_box_t0(Axes2) /\ IsValid(op.bbox)) => bbox = op.bbox
        /\ (IsValid(prev) /\ op.bbox = bounding_box_t0(Axes2)) => bbox = prev

\* C7: expand(p) with p inside a valid box (boundary included) changes
\* neither minimum() nor maximum(); and expand(p) applied a second time
\* right after expand(p) changes nothing.
C7_ExpandIdempotentInside ==
    op.kind = "expand_point" =>
        /\ (IsValid(prev) /\ Inside(op.point, prev)) => bbox = prev
        /\ expand_point(bbox, op.point) = bbox

C7_Witness ==
    /\ op.kind = "expand_point"
    /\ IsValid(prev)
    /\ minimum(prev) # maximum(prev)
    /\ op.point = maximum(prev)
    /\ bbox = prev

----------------------------------------------------------------------------
(* Order of the expand calls: every interleaving of a bag of calls on a     *)
(* default-constructed bounding_box_t<math::vec2>                           *)

MaxOps == 2

Apply(b, call) ==
    IF call.kind = "expand_point" THEN expand_point(b, call.point) ELSE expand_bbox(b, call.bbox)

\* the calls of a bag made one after the other in one fixed order
RECURSIVE FoldBag(_, _)
FoldBag(b, calls) ==
    IF calls = EmptyBag THEN b
    ELSE LET call == CHOOSE c \in BagToSet(calls) : TRUE
         IN  FoldBag(Apply(b, call), calls (-) SetToBag({call}))

restOrder == <<prev, op, origin, vertices, other, hit, seg, ret>>

\* a valid box that lies below DBL_MIN on every axis: no sequence of expand
\* calls on a default-constructed box ends in it
OrderStart == bounding_box_t([i \in Axes2 |-> -2], [i \in Axes2 |-> 0])

\* the calls may also start from a box made by the two-argument constructor
OrderConstruct ==
    /\ applied = EmptyBag
    /\ origin = "default"
    /\ bbox' = bounding_box_t(OrderStart.m_minimum, OrderStart.m_maximum)
    /\ prev' = bbox'
    /\ op' = [kind |-> "construct", point |-> NoPoint, bbox |-> NoBox]
    /\ origin' = "explicit"
    /\ UNCHANGED <<trail, applied, vertices, other, hit, seg, ret>>

\* the call is recorded in the bag only, so that every order of the same
\* calls leads to the same state unless the orders disagree on the box
OrderExpandPoint(point) ==
    /\ bbox' = expand_point(bbox, point)
    /\ trail' = IF trail = "sentinel" THEN "sentinel" ELSE "valid"
    /\ applied' = applied (+) SetToBag({[kind |-> "expand_point", point |-> point, bbox |-> NoBox]})
    /\ UNCHANGED restOrder

OrderExpandBox(arg) ==
    /\ bbox' = expand_bbox(bbox, arg)
    /\ trail' = IF trail = "sentinel" \/ ~IsValid(arg) THEN "sentinel" ELSE "valid"
    /\ applied' = applied (+) SetToBag({[kind |-> "expand_bbox", point |-> NoPoint, bbox |-> arg]})
    /\ UNCHANGED restOrder

NextOrder ==
    \/ OrderConstruct
    \/ /\ BagCardinality(applied) < MaxOps
       /\ \/ \E point \in Points2 : OrderExpandPoint(point)
          \/ \E arg \in ValidBoxes2 \cup {bounding_box_t0(Axes2)} : OrderExpandBox(arg)

SpecOrder == InitBox /\ [][NextOrder]_vars

\* C9: the box a sequence of expand calls ends in does not depend on the
\* order of the calls: whatever order the calls of a bag were made in on the
\* starting box (prev, which the calls of this specification leave alone),
\* the box is the one the bag gives in one fixed order.
C9_OrderIndependent == bbox = FoldBag(prev, applied)

C9_Witness ==
    /\ BagCardinality(applied) >= 2
    /\ origin = "explicit"
    /\ \E c1, c2 \in BagToSet(applied) :
           /\ c1.kind = "expand_point" /\ c2.kind = "expand_bbox"
           /\ Apply(prev, c1) # bbox
           /\ Apply(prev, c2) # bbox

----------------------------------------------------------------------------
(* make_bbox on a default-constructed bounding_box_t<math::vec2> *)

MaxVertices == 3

VertexArrays == UNION {[1..n -> Points2] : n \in 3..MaxVertices}

\* MCUT_ASSERT(num_vertices >= 3) holds of every array of VertexArrays
MakeBBox(verts) ==
    /\ Len(verts) >= 3
    /\ prev' = bbox
    /\ bbox' = make_bbox(bbox, verts, Len(verts))
    /\ vertices' = verts
    /\ op' = [kind |-> "make_bbox", point |-> NoPoint, bbox |-> NoBox]
    /\ trail' = "valid"
    /\ UNCHANGED <<origin, applied, other, hit, seg, ret>>

NextMake ==
    /\ vertices = <<>>
    /\ \E verts \in VertexArrays : MakeBBox(verts)

SpecMake == InitBox /\ [][NextMake]_vars

SmallestOf(S) == CHOOSE v \in S : \A w \in S : v <= w

LargestOf(S) == CHOOSE v \in S : \A w \in S : v >= w

\* C2: make_bbox on a default-constructed box and n >= 3 vertices gives the
\* minimal enclosing box: on every axis minimum() is the smallest and
\* maximum() the largest coordinate among the vertices.
C2_MakeBBoxIsMinimalBox ==
    (op.kind = "make_bbox" /\ prev = bounding_box_t0(Axes2)) =>
        \A i \in Axes2 :
            /\ minimum(bbox)[i] = SmallestOf({vertices[k][i] : k \in 1..Len(vertices)})
            /\ maximum(bbox)[i] = LargestOf({vertices[k][i] : k \in 1..Len(vertices)})

----------------------------------------------------------------------------
(* intersect_bounding_boxes on two bounding_box_t<math::vec3>: a is a valid  *)
(* box or the default-constructed one, and so is b                          *)

\* the valid box that spans the whole range of the doubles, lowest() to max()
WholeRange3 == bounding_box_t([i \in Axes3 |-> 0 - DBL_MAX], [i \in Axes3 |-> DBL_MAX])

Boxes3 == ValidBoxes3 \cup {WholeRange3, bounding_box_t0(Axes3)}

InitIntersect ==
    /\ bbox \in Boxes3
    /\ prev = bbox
    /\ op = [kind |-> "construct", point |-> NoPoint, bbox |-> NoBox]
    /\ origin = IF IsValid(bbox) THEN "explicit" ELSE "default"
    /\ trail = "none"
    /\ applied = EmptyBag
    /\ vertices = <<>>
    /\ other = NoBox
    /\ hit = FALSE
    /\ seg = NoSeg
    /\ ret = NoRet

Intersect(b) ==
    /\ other' = b
    /\ hit' = intersect_bounding_boxes(bbox, b)
    /\ op' = [kind |-> "intersect", point |-> NoPoint, bbox |-> NoBox]
    /\ UNCHANGED <<bbox, prev, origin, trail, applied, vertices, seg, ret>>

NextIntersect ==
    /\ op.kind # "intersect"
    /\ \E b \in Boxes3 : Intersect(b)

SpecIntersect == InitIntersect /\ [][NextIntersect]_vars

\* the closed intervals of a and b on axis i have a value in common
ShareValue(a, b, i) ==
    \E v \in (0 - DBL_MAX)..DBL_MAX :
        /\ minimum(a)[i] <= v /\ v <= maximum(a)[i]
        /\ minimum(b)[i] <= v /\ v <= maximum(b)[i]

\* C3: for valid 3D boxes a and b, intersect_bounding_boxes(a, b) is true
\* exactly when on each of the three axes the closed intervals of a and b
\* share a value: touching boxes intersect, boxes apart on an axis do not.
C3_IntersectIsClosedOverlap ==
    (op.kind = "intersect" /\ IsValid(bbox) /\ IsValid(other)) =>
        (hit <=> \A i \in Axes3 : ShareValue(bbox, other, i))

C3_Witness ==
    /\ op.kind = "intersect"
    /\ IsValid(bbox) /\ IsValid(other)
    /\ hit
    /\ maximum(bbox)[1] = minimum(other)[1]
    /\ minimum(bbox)[1] < maximum(bbox)[1]
    /\ minimum(other)[1] < maximum(other)[1]

BelowSentinel(b) ==
    /\ IsValid(b)
    /\ \A i \in Axes3 : minimum(b)[i] < DBL_MAX /\ maximum(b)[i] < DBL_MAX

\* C10: a default-constructed 3D box intersects nothing: the overlap test of
\* it with a valid box whose coordinates are below DBL_MAX is false in
\* both argument orders, and so is the test of it with itself.
C10_DefaultBoxIsEmpty ==
    op.kind = "intersect" =>
        LET d == bounding_box_t0(Axes3)
        IN  \/ (bbox = d /\ (other = d \/ BelowSentinel(other)))
            \/ (other = d /\ BelowSentinel(bbox))
            => hit = FALSE

C10_Witness ==
    /\ op.kind = "intersect"
    /\ other = bounding_box_t0(Axes3)
    /\ BelowSentinel(bbox)
    /\ \A i \in Axes3 : minimum(bbox)[i] < DBL_MIN /\ DBL_MIN < maximum(bbox)[i]
    /\ hit = FALSE

----------------------------------------------------------------------------
(* compute_segment_plane_intersection: geom.h declares it and documents its *)
(* five return values; its body is modelled from the design document:       *)
(* signed distances dot(normal, x) + d compared with zero exactly, the      *)
(* codes tried in the order p, q, r, 0, 1, and the crossing point found by  *)
(* linear interpolation with the two signed distances.  Coordinates are     *)
(* integers; the output point is the rational num / den.                    *)

MaxNormal == 1

MaxOffset == 1

MaxPoint == 1

Normals == [Axes3 -> -1..MaxNormal]

Offsets == -1..MaxOffset

SegPoints == [Axes3 -> -1..MaxPoint]

dot_product(a, b) == a[1] * b[1] + a[2] * b[2] + a[3] * b[3]

SignedDistance(normal, d_coeff, x) == dot_product(normal, x) + d_coeff

PointUnspecified == [num |-> <<>>, den |-> 0]

\* a classifier that tries the endpoint q before the coplanar case
segment_plane_q_first(normal, d_coeff, q, r) ==
    LET sq == SignedDistance(normal, d_coeff, q)
        sr == SignedDistance(normal, d_coeff, r)
    IN  IF sq = 0 THEN [code |-> "q", p |-> [num |-> q, den |-> 1]]
        ELSE IF sr = 0 THEN [code |-> "r", p |-> [num |-> r, den |-> 1]]
        ELSE IF sq * sr > 0 THEN [code |-> "0", p |-> PointUnspecified]
        ELSE [code |-> "1",
              p |-> [num |-> [i \in Axes3 |-> q[i] * (sq - sr) + sq * (r[i] - q[i])],
                     den |-> sq - sr]]

compute_segment_plane_intersection(normal, d_coeff, q, r) ==
    LET sq == SignedDistance(normal, d_coeff, q)
        sr == SignedDistance(normal, d_coeff, r)
    IN  IF sq = 0 /\ sr = 0 THEN [code |-> "p", p |-> PointUnspecified]
        ELSE IF sq = 0 THEN [code |-> "q", p |-> [num |-> q, den |-> 1]]
        ELSE IF sr = 0 THEN [code |-> "r", p |-> [num |-> r, den |-> 1]]
        ELSE IF sq * sr > 0 THEN [code |-> "0", p |-> PointUnspecified]
        ELSE [code |-> "1",
              p |-> [num |-> [i \in Axes3 |-> q[i] * (sq - sr) + sq * (r[i] - q[i])],
                     den |-> sq - sr]]

InitSeg ==
    /\ bbox = NoBox
    /\ prev = NoBox
    /\ op = [kind |-> "none", point |-> NoPoint, bbox |-> NoBox]
    /\ origin = "none"
    /\ trail = "none"
    /\ applied = EmptyBag
    /\ vertices = <<>>
    /\ other = NoBox
    /\ hit = FALSE
    /\ seg = NoSeg
    /\ ret = NoRet

SegmentPlane(normal, d_coeff, q, r) ==
    /\ seg' = [normal |-> normal, d_coeff |-> d_coeff, q |-> q, r |-> r]
    /\ ret' = compute_segment_plane_intersection(normal, d_coeff, q, r)
    /\ op' = [kind |-> "segment_plane", point |-> NoPoint, bbox |-> NoBox]
    /\ UNCHANGED <<bbox, prev, origin, trail, applied, vertices, other, hit>>

NextSeg ==
    /\ op.kind = "none"
    /\ \E normal \in Normals, d_coeff \in Offsets, q \in SegPoints, r \in SegPoints :
           SegmentPlane(normal, d_coeff, q, r)

SpecSeg == InitSeg /\ [][NextSeg]_vars

Sign(n) == IF n > 0 THEN 1 ELSE IF n < 0 THEN -1 ELSE 0

\* C8: the returned code is one of p, q, r, 0, 1 and is fixed by the signs
\* of sq = dot(normal, q) + d and sr = dot(normal, r) + d: p iff both are
\* zero, q iff only sq is, r iff only sr is, 0 iff both are non-zero with
\* the same sign, 1 iff both are non-zero with opposite signs; with q and r
\* exchanged, q and r exchange and p, 0, 1 stay.
C8_SegmentPlaneCodes ==
    op.kind = "segment_plane" =>
        LET sq == Sign(SignedDistance(seg.normal, seg.d_coeff, seg.q))
            sr == Sign(SignedDistance(seg.normal, seg.d_coeff, seg.r))
            swapped == compute_segment_plane_intersection(seg.normal, seg.d_coeff, seg.r, seg.q).code
        IN  /\ ret.code \in {"p", "q", "r", "0", "1"}
            /\ ret.code = "p" <=> (sq = 0 /\ sr = 0)
            /\ ret.code = "q" <=> (sq = 0 /\ sr # 0)
            /\ ret.code = "r" <=> (sr = 0 /\ sq # 0)
            /\ ret.code = "0" <=> (sq # 0 /\ sr = sq)
            /\ ret.code = "1" <=> (sq # 0 /\ sr # 0 /\ sr # sq)
            /\ ret.code = "q" <=> swapped = "r"
            /\ ret.code = "r" <=> swapped = "q"
            /\ ret.code \in {"p", "0", "1"} => swapped = ret.code

C8_Witness ==
    /\ op.kind = "segment_plane"
    /\ ret.code = "1"
    /\ seg.normal = <<0, 0, 1>>
    /\ seg.d_coeff = 0
    /\ seg.q = <<0, 0, -1>>
    /\ seg.r = <<0, 0, 1>>
    /\ ret.p = [num |-> <<0, 0, 0>>, den |-> -2]

====
